---- MODULE Spec2Model ----
(***************************************************************************)
(* Real-Time Process Monitor (src/process_monitor.py).                     *)
(*                                                                         *)
(* Two threads share a queue.Queue:                                        *)
(*   - the Sampler (ProcessMonitor.update_loop, a daemon thread) measures  *)
(*     CPU and memory, enumerates the processes, builds a snapshot and     *)
(*     puts it on update_queue, then sleeps refresh_rate seconds;          *)
(*   - the Presenter (ProcessMonitor.check_updates, a Tk timer callback on *)
(*     the main thread) drains update_queue and rewrites the labels and    *)
(*     the Treeview rows; the operator's handlers (sort_column,            *)
(*     terminate_process, the interval Spinbox) run on the same thread.    *)
(*                                                                         *)
(* Units.  Percentages are integers in hundredths of a percent; a cell or  *)
(* label formatted with "%.1f" is the integer number of tenths it shows    *)
(* ("12.3" is 123).  Durations are integers in tenths of a second.         *)
(* Memory sizes are bytes.                                                 *)
(***************************************************************************)
EXTENDS Integers, Sequences, FiniteSets, TLC

(***************************************************************************)
(* Bounds of the model.                                                    *)
(***************************************************************************)
\* psutil.cpu_count() of the host (line 19), read once at start-up.
NumCores == 4
\* Snapshots update_queue may hold before the model stops a further put.
MaxQueue == 2
\* Processes, besides a block of identical filler services, in the process
\* table of a run of the snapshot builder.
MaxProcs == 2

(***************************************************************************)
(* Program constants.                                                      *)
(***************************************************************************)
\* processes[:50], line 111.
Cap == 50
\* time.sleep(1) of the except handler, line 119, in tenths of a second.
FallbackDelay == 10
\* Spinbox(from_=0.1, to=5.0, increment=0.1), line 45, in tenths of a second.
SpinFrom == 1
SpinTo == 50
SpinIncrement == 1
\* tk.DoubleVar(value=0.5), line 44.
DefaultRate == 5
\* join(timeout=1), line 195, in tenths of a second.
JoinTimeout == 10
\* psutil.cpu_percent(interval=0.1), line 97, in tenths of a second.
CpuInterval == 1
\* 1024 * 1024, lines 129 and 139.
MiB == 1048576

\* None, as psutil stores it for a field it was denied (ad_value), in a
\* numeric field and in the name.
None == -1
NoneName == "<None>"

Min(a, b) == IF a < b THEN a ELSE b
Max(a, b) == IF a > b THEN a ELSE b

SeqsUpTo(S, n) == UNION {[1..k -> S] : k \in 0..n}

SetMax(S) == CHOOSE x \in S : \A y \in S : y <= x
SetMin(S) == CHOOSE x \in S : \A y \in S : x <= y

(***************************************************************************)
(* Text.  str.lower() on the process names of the model, and the code      *)
(* points Python compares two strings by.                                  *)
(***************************************************************************)
Lower(s) ==
    CASE s = "System Idle Process" -> "system idle process"
      [] s = "SYSTEM IDLE PROCESS" -> "system idle process"
      [] s = "Idle"                -> "idle"
      [] s = "IDLE"                -> "idle"
      [] s = "Worker"              -> "worker"
      [] OTHER                     -> s

\* Line 104: the names the Sampler drops, compared after lower().
IdleNames == {"system idle process", "idle"}

\* "%.1f" of a value in hundredths: the tenths shown, rounded to nearest.
Fmt1(x) == (x + 5) \div 10

\* f"{rss / (1024 * 1024):.1f}", lines 139 and 144: MB in tenths.
FmtMB(rss) == (rss * 20 + MiB) \div (2 * MiB)

(***************************************************************************)
(* The operating system, as psutil shows it.                               *)
(*                                                                         *)
(* A process-table entry is what one step of psutil.process_iter(attrs)    *)
(* hands to the loop body of lines 101-108: the dict proc.info, in which   *)
(* psutil has put None for every field it was denied, or an exception      *)
(* (raises) thrown while the body reads the entry.                         *)
(***************************************************************************)
Proc(pid, name, cpu, rss, status, raises) ==
    [pid |-> pid, name |-> name, cpu_percent |-> cpu, memory_info |-> rss,
     status |-> status, raises |-> raises]

Hot      == Proc(9,  "worker", 40000, 52428800, "running",  "none")
Cold     == Proc(10, "init",   0,     1048576,  "sleeping", "none")
Warm     == Proc(11, "Worker", 2000,  2097152,  "running",  "none")
SysIdle  == Proc(0,  "System Idle Process", 39000, 8192, "running", "none")
IdleCaps == Proc(4,  "IDLE",   100,   8192,     "running",  "none")
Vanished == Proc(13, "ghost",  500,   1048576,  "zombie",   "NoSuchProcess")
Refused  == Proc(14, "vault",  500,   1048576,  "running",  "AccessDenied")
NoName   == Proc(15, NoneName, 500,   1048576,  "running",  "none")
NoCpu    == Proc(16, "daemon", None,  1048576,  "running",  "none")
NoMem    == Proc(17, "kernel", 2000,  None,     "running",  "none")

\* A block of n services with one CPU reading and consecutive pids.
Filler(n) ==
    [i \in 1..n |-> Proc(100 + i, "svc", 2000, 3145728, "sleeping", "none")]

\* psutil.virtual_memory(): percent in hundredths, used and total in bytes.
Mem(percent, used, total) == [percent |-> percent, used |-> used, total |-> total]

\* The memory reading of every world of the model.
HalfFull == Mem(7500, 1500000000, 2000000000)

Os(cpu, mem, procs) == [cpu |-> cpu, mem |-> mem, procs |-> procs]

\* Process tables of the snapshot builder's runs: up to MaxProcs processes
\* around a block of fillers that is empty or one short of the cap.
BuilderPool == {Hot, Cold, Warm, SysIdle, IdleCaps, Vanished, NoCpu}
BuilderTables ==
    { SubSeq(ps, 1, k) \o Filler(n) \o SubSeq(ps, k + 1, Len(ps)) :
        <<ps, k>> \in { pk \in SeqsUpTo(BuilderPool, MaxProcs) \X (0..MaxProcs) :
                           pk[2] <= Len(pk[1]) },
        n \in {0, Cap - 1} }

VARIABLES
    os,             \* environment: the CPU and memory readings and the process table
    running,        \* self.running, the shutdown flag
    update_queue,   \* self.update_queue, the queue.Queue of snapshots
    refresh_rate,   \* self.refresh_rate, the DoubleVar behind the Spinbox
    spc,            \* the Sampler thread's position in update_loop
    sleepDur,       \* duration of the time.sleep the Sampler is in (0: none)
    printed,        \* what the Sampler's last step printed ("none": nothing)
    blocked_left,   \* while __del__ waits in join: the time the call the Sampler
                    \* is blocked in still lasts (0 otherwise)
    ppc,            \* the main thread's position in check_updates
    tickStart,      \* the queue as the running tick of check_updates found it
    raced,          \* whether the Sampler has put during the running tick
    applied,        \* the snapshot check_updates dequeued last
    labels,         \* cpu_label, memory_label, process_count_label
    tree,           \* the Treeview's rows, in display order
    selection,      \* the item ids of the selected rows
    sortNext,       \* per column, the reverse flag its heading command holds
    lastSort,       \* the column and flag of the last sort_column call, if no
                    \* snapshot was applied since
    lastClick,      \* the column and flag of the last sort_column call
    ui_printed,     \* rows the last snapshot application reported and skipped
    dialog,         \* the messagebox that is open ("none": none)
    pending_pid,    \* the pid terminate_process read, while it runs
    answer,         \* the operator's answer to the last askyesno
    os_request,     \* the last terminate request made to the OS, and its outcome
    stamps,         \* per queued snapshot, how many were published since the one
                    \* dequeued last, itself included (in the queue's order)
    ahead,          \* how many were published since the one dequeued last
    followed,       \* the stamp of the queued snapshot an observer follows (0: none)
    ui_error,       \* the error line 152 printed in the tick under way or the
                    \* last one ("none": none)
    del_pc,         \* position of __del__: alive, joining, returned
    join_left,      \* while __del__ waits in join: the time left of its timeout
    flagAt          \* where the Sampler was when __del__ cleared running

envVars     == <<os>>
sharedVars  == <<running, update_queue, refresh_rate>>
samplerVars == <<spc, sleepDur, printed, blocked_left>>
tickVars    == <<ppc, tickStart, raced, applied, stamps, ahead, followed,
                 ui_error>>
viewVars    == <<labels, tree, selection, ui_printed>>
sortVars    == <<sortNext, lastSort, lastClick>>
killVars    == <<dialog, pending_pid, answer, os_request>>
delVars     == <<del_pc, flagAt, join_left>>
vars == <<os, running, update_queue, refresh_rate, spc, sleepDur, printed,
          ppc, tickStart, labels, tree, selection, sortNext, lastSort,
          ui_printed, dialog, pending_pid, answer, os_request, del_pc,
          raced, applied, flagAt, stamps, ahead, followed,
          blocked_left, join_left, ui_error, lastClick>>

(***************************************************************************)
(* queue.Queue, line 16: first in, first out, and without a maxsize.       *)
(***************************************************************************)
\* QueuePut with the item dropped while another one waits.
QueuePutIfEmpty(q, item) == IF q = <<>> THEN <<item>> ELSE q

\* Queue.put(item), line 113: the item goes behind those that wait.
QueuePut(q, item) == Append(q, item)

\* QueueGet with the item put last taken.
QueueGetNewest(q) == [item |-> q[Len(q)], rest |-> SubSeq(q, 1, Len(q) - 1)]

\* Queue.get_nowait(), line 125, on a queue that is not empty: the item that
\* waited longest, and the queue without it.
QueueGet(q) == [item |-> Head(q), rest |-> Tail(q)]

(***************************************************************************)
(* The Sampler: ProcessMonitor.update_loop, lines 93-119.                  *)
(***************************************************************************)
\* Line 105: pinfo['cpu_percent'] / self.num_cores, to a hundredth.
Normalize(raw) == raw \div NumCores

\* Reading with the names compared as they are, lower() left out.
ReadingCaseSensitive(pinfo) ==
    IF pinfo.raises \in {"NoSuchProcess", "AccessDenied"} THEN "skip"
    ELSE IF pinfo.name = NoneName THEN "AttributeError"
    ELSE IF pinfo.name \in IdleNames THEN "skip"
    ELSE IF pinfo.cpu_percent = None THEN "TypeError"
    ELSE "keep"

\* Lines 103-108 on one entry of process_iter: the entry is kept, skipped
\* (continue at line 108, or an idle name), or an error leaves the for loop:
\* None has no lower() and cannot be divided.
Reading(pinfo) ==
    IF pinfo.raises \in {"NoSuchProcess", "AccessDenied"} THEN "skip"
    ELSE IF pinfo.name = NoneName THEN "AttributeError"
    ELSE IF Lower(pinfo.name) \in IdleNames THEN "skip"
    ELSE IF pinfo.cpu_percent = None THEN "TypeError"
    ELSE "keep"

\* Lines 105-106: the record appended for a kept entry.
Record(pinfo) ==
    [pid |-> pinfo.pid, name |-> pinfo.name,
     cpu_percent |-> Normalize(pinfo.cpu_percent),
     memory_info |-> pinfo.memory_info, status |-> pinfo.status]

\* Lines 100-108: the for loop over the table; the first entry that fails
\* ends it with that error.
Collect(table) ==
    LET bad  == {i \in 1..Len(table) : Reading(table[i]) \notin {"skip", "keep"}}
        kept == SelectSeq(table, LAMBDA pinfo : Reading(pinfo) = "keep")
    IN  IF bad # {} THEN [err |-> Reading(table[SetMin(bad)]), processes |-> <<>>]
        ELSE [err |-> "none", processes |-> [i \in 1..Len(kept) |-> Record(kept[i])]]

\* list.sort(key=..., reverse=True), line 110: descending by key, records
\* of equal key in their order in s (the sort is stable, reverse included).
RECURSIVE SortedByKeys(_, _)
SortedByKeys(keys, s) ==
    IF keys = {} THEN <<>>
    ELSE LET m == SetMax(keys) IN
         SelectSeq(s, LAMBDA p : p.cpu_percent = m) \o SortedByKeys(keys \ {m}, s)

\* SortByCpuDesc with the sort of line 110 left out.
SortByCpuSkipped(s) == s

SortByCpuDesc(s) == SortedByKeys({s[i].cpu_percent : i \in 1..Len(s)}, s)

\* processes[:50], line 111.
Truncate(s) == SubSeq(s, 1, Min(Len(s), Cap))

\* Snapshot with lines 110 and 111 the other way round: cut, then sorted.
SnapshotCutFirst(cpu, mem, processes) ==
    [cpu_percent |-> cpu, memory |-> mem,
     processes |-> SortByCpuDesc(Truncate(processes))]

\* Lines 110-113: the tuple put on the queue.
Snapshot(cpu, mem, processes) ==
    [cpu_percent |-> cpu, memory |-> mem,
     processes |-> Truncate(SortByCpuDesc(processes))]

\* Where an error of the environment may strike in a cycle.
CycleFaults == {"none", "cpu_percent", "virtual_memory", "process_iter", "sort", "put"}

\* Lines 96-113 of one cycle: what the try block ends with.
CycleResult(fault, env) ==
    IF fault \in {"cpu_percent", "virtual_memory", "process_iter"}
      THEN [err |-> fault]
    ELSE LET got == Collect(env.procs) IN
      IF got.err # "none" THEN [err |-> got.err]
      ELSE IF fault \in {"sort", "put"} THEN [err |-> fault]
      ELSE [err |-> "none", snapshot |-> Snapshot(env.cpu, env.mem, got.processes)]

\* The time a call that blocks for d keeps the Sampler, as far as a join
\* under way can tell: what is longer than the join's timeout outlasts it.
Block(d) == IF del_pc = "joining" THEN Min(d, JoinTimeout + 1) ELSE 0

\* LoopTest with the flag not looked at: while True.
LoopTestFlagIgnored ==
    /\ spc = "test"
    /\ spc' = "cycle"
    /\ printed' = "none"
    /\ blocked_left' = Block(CpuInterval)
    /\ UNCHANGED <<sleepDur, envVars, sharedVars, tickVars, viewVars, sortVars,
                   killVars, delVars>>

\* Line 95: while self.running.
LoopTest ==
    /\ spc = "test"
    /\ spc' = IF running THEN "cycle" ELSE "exited"
    /\ printed' = "none"
    /\ blocked_left' = IF running THEN Block(CpuInterval) ELSE 0
    /\ UNCHANGED <<sleepDur, envVars, sharedVars, tickVars, viewVars, sortVars,
                   killVars, delVars>>

\* Recover with the error reported and raised again: the thread ends.
RecoverReraised(err) ==
    /\ spc' = "exited"
    /\ printed' = err
    /\ sleepDur' = 0
    /\ blocked_left' = 0

\* The except handler, lines 117-119: report, then time.sleep(1).
Recover(err) ==
    /\ spc' = "fallback"
    /\ printed' = err
    /\ sleepDur' = FallbackDelay
    /\ blocked_left' = Block(FallbackDelay)

\* Lines 96-113: one sampling cycle up to the put.
Cycle ==
    /\ spc = "cycle"
    /\ blocked_left = 0
    /\ \E fault \in CycleFaults :
         LET res == CycleResult(fault, os) IN
           IF res.err = "none"
             THEN /\ Len(update_queue) < MaxQueue
                  /\ update_queue' = QueuePut(update_queue, res.snapshot)
                  /\ stamps' = QueuePut(stamps, ahead + 1)
                  /\ ahead' = ahead + 1
                  /\ spc' = "interval"
                  /\ printed' = "none"
                  /\ raced' = (raced \/ ppc = "draining")
                  /\ UNCHANGED <<sleepDur, blocked_left>>
             ELSE /\ Recover(res.err)
                  /\ UNCHANGED <<update_queue, raced, stamps, ahead>>
    /\ UNCHANGED <<followed, ui_error>>
    /\ UNCHANGED <<envVars, running, refresh_rate, ppc, tickStart, applied, viewVars, sortVars,
                   killVars, delVars>>

\* Line 115: time.sleep(self.refresh_rate.get()).  DoubleVar.get() raises
\* TclError on text that is no number, time.sleep raises ValueError on a
\* negative one; both are caught at line 117.
ReadInterval ==
    /\ spc = "interval"
    /\ IF ~refresh_rate.numeric THEN Recover("TclError")
       ELSE IF refresh_rate.value < 0 THEN Recover("ValueError")
       ELSE /\ spc' = "sleep"
            /\ sleepDur' = refresh_rate.value
            /\ printed' = "none"
            /\ blocked_left' = Block(refresh_rate.value)
    /\ UNCHANGED <<envVars, sharedVars, tickVars, viewVars, sortVars, killVars, delVars>>

\* Wake with the loop test passed over: the sleep ends in the next cycle.
WakeIntoCycle ==
    /\ spc \in {"sleep", "fallback"}
    /\ blocked_left = 0
    /\ spc' = "cycle"
    /\ sleepDur' = 0
    /\ printed' = "none"
    /\ blocked_left' = Block(CpuInterval)
    /\ UNCHANGED <<envVars, sharedVars, tickVars, viewVars, sortVars, killVars, delVars>>

\* The sleep of line 115 or of line 119 ends; back to the loop test.
Wake ==
    /\ spc \in {"sleep", "fallback"}
    /\ blocked_left = 0
    /\ spc' = "test"
    /\ sleepDur' = 0
    /\ printed' = "none"
    /\ UNCHANGED blocked_left
    /\ UNCHANGED <<envVars, sharedVars, tickVars, viewVars, sortVars, killVars, delVars>>

(***************************************************************************)
(* The Presenter: ProcessMonitor.check_updates, lines 121-154.  The timer  *)
(* callback runs on the main thread while the Sampler thread may put, so   *)
(* one tick is a TickBegin, one DrainOne per iteration of the while loop,  *)
(* and a TickEnd.                                                          *)
(***************************************************************************)
NoSnapshot == [cpu_percent |-> 0, memory |-> Mem(0, 0, 0), processes |-> <<>>]

NoLabels ==
    [cpu |-> 0, cores |-> 0, mem_percent |-> 0, used_mb |-> 0, total_mb |-> 0,
     count |-> 0]

\* Lines 128-130: the three label texts of a snapshot.
LabelsOf(snap) ==
    [cpu |-> Fmt1(snap.cpu_percent), cores |-> NumCores,
     mem_percent |-> Fmt1(snap.memory.percent),
     used_mb |-> snap.memory.used \div MiB,
     total_mb |-> snap.memory.total \div MiB,
     count |-> Len(snap.processes)]

\* Lines 137-149: a record whose memory_info is None has no rss
\* (AttributeError, line 147) and gets no row; the others get one each, in
\* the snapshot's order.  An item id is the rank of the row among the rows
\* inserted (ttk numbers the items it creates upwards).
Row(proc, iid) ==
    [iid |-> iid, pid |-> proc.pid, name |-> proc.name,
     cpu |-> Fmt1(proc.cpu_percent), mem |-> FmtMB(proc.memory_info),
     status |-> proc.status]

\* Rows with the for loop left at the first record that has no rss.
RowsUntilBad(processes) ==
    LET bad   == {i \in 1..Len(processes) : processes[i].memory_info = None}
        shown == IF bad = {} THEN processes
                 ELSE SubSeq(processes, 1, SetMin(bad) - 1)
    IN  [i \in 1..Len(shown) |-> Row(shown[i], i)]

Rows(processes) ==
    LET shown == SelectSeq(processes, LAMBDA proc : proc.memory_info # None)
    IN  [i \in 1..Len(shown) |-> Row(shown[i], i)]

\* The records line 148 reports: those that got no row.
Skipped(processes) ==
    Cardinality({i \in 1..Len(processes) : processes[i].memory_info = None})

NoSort == [col |-> "none", reverse |-> FALSE, again |-> FALSE, across |-> FALSE]

NoClick == [col |-> "none", reverse |-> FALSE]

\* The timer fires (line 154 scheduled it) and check_updates is entered.
TickBegin ==
    /\ del_pc = "alive"
    /\ ppc = "idle"
    /\ ppc' = "draining"
    /\ tickStart' = update_queue
    /\ raced' = FALSE
    /\ ui_error' = "none"
    /\ UNCHANGED <<applied, stamps, ahead, followed>>
    /\ UNCHANGED <<envVars, sharedVars, samplerVars, viewVars, sortVars, killVars, delVars>>

\* DrainOne with lines 133-134 left out: the old rows stay above the new.
DrainOneRowsKept ==
    /\ ppc = "draining"
    /\ update_queue # <<>>
    /\ LET snap == QueueGet(update_queue).item
           born == QueueGet(stamps).item
       IN
         /\ update_queue' = QueueGet(update_queue).rest
         /\ stamps' = [i \in 1..(Len(stamps) - 1) |-> QueueGet(stamps).rest[i] - born]
         /\ ahead' = ahead - born
         /\ followed' = IF followed > 0 THEN followed - born ELSE 0
         /\ labels' = LabelsOf(snap)
         /\ tree' = tree \o Rows(snap.processes)
         /\ ui_printed' = Skipped(snap.processes)
         /\ applied' = snap
    /\ selection' = {}
    /\ lastSort' = NoSort
    /\ UNCHANGED <<envVars, running, refresh_rate, samplerVars, ppc, tickStart, raced, sortNext,
                   lastClick, ui_error, killVars, delVars>>

\* Lines 124-149: one iteration of the while loop.
DrainOne ==
    /\ ppc = "draining"
    /\ update_queue # <<>>
    /\ LET snap == QueueGet(update_queue).item
           born == QueueGet(stamps).item
       IN
         /\ update_queue' = QueueGet(update_queue).rest
         /\ stamps' = [i \in 1..(Len(stamps) - 1) |-> QueueGet(stamps).rest[i] - born]
         /\ ahead' = ahead - born
         /\ followed' = IF followed > 0 THEN followed - born ELSE 0
         /\ labels' = LabelsOf(snap)
         /\ tree' = Rows(snap.processes)
         /\ ui_printed' = Skipped(snap.processes)
         /\ applied' = snap
    /\ selection' = {}
    /\ lastSort' = NoSort
    /\ UNCHANGED <<envVars, running, refresh_rate, samplerVars, ppc, tickStart, raced, sortNext,
                   lastClick, ui_error, killVars, delVars>>

\* How far lines 128-146 get when a call into Tk raises: at the first label
\* (nothing is changed), at the first delete (the labels are changed), or at
\* the first insert (the rows are gone as well).
RaiseStages == {"labels", "delete", "insert"}

\* What lines 151-154 leave of a tick in which a call into Tk raised: the
\* error is printed and the while loop is not taken up again.
TickAfterError(next_pc) ==
    /\ ppc' = next_pc
    /\ ui_error' = "TclError"
    /\ tickStart' = <<>>
    /\ raced' = FALSE

\* DrainRaises with line 154 inside the try block: an error passes it over.
DrainRaisesUnscheduled(stage) ==
    /\ ppc = "draining"
    /\ update_queue # <<>>
    /\ LET snap == QueueGet(update_queue).item
           born == QueueGet(stamps).item
       IN
         /\ update_queue' = QueueGet(update_queue).rest
         /\ stamps' = [i \in 1..(Len(stamps) - 1) |-> QueueGet(stamps).rest[i] - born]
         /\ ahead' = ahead - born
         /\ followed' = IF followed > 0 THEN followed - born ELSE 0
         /\ applied' = snap
         /\ labels' = IF stage = "labels" THEN labels ELSE LabelsOf(snap)
    /\ tree' = IF stage = "insert" THEN <<>> ELSE tree
    /\ selection' = IF stage = "insert" THEN {} ELSE selection
    /\ lastSort' = IF stage = "insert" THEN NoSort ELSE lastSort
    /\ TickAfterError("dead")
    /\ UNCHANGED <<envVars, running, refresh_rate, samplerVars, sortNext, lastClick,
                   ui_printed, killVars, delVars>>

\* Lines 124-154: an iteration of the while loop in which a call into Tk
\* raises.  The snapshot is off the queue; line 151 catches the error,
\* line 152 prints it and line 154 schedules the next tick.
DrainRaises(stage) ==
    /\ ppc = "draining"
    /\ update_queue # <<>>
    /\ LET snap == QueueGet(update_queue).item
           born == QueueGet(stamps).item
       IN
         /\ update_queue' = QueueGet(update_queue).rest
         /\ stamps' = [i \in 1..(Len(stamps) - 1) |-> QueueGet(stamps).rest[i] - born]
         /\ ahead' = ahead - born
         /\ followed' = IF followed > 0 THEN followed - born ELSE 0
         /\ applied' = snap
         /\ labels' = IF stage = "labels" THEN labels ELSE LabelsOf(snap)
    /\ tree' = IF stage = "insert" THEN <<>> ELSE tree
    /\ selection' = IF stage = "insert" THEN {} ELSE selection
    /\ lastSort' = IF stage = "insert" THEN NoSort ELSE lastSort
    /\ TickAfterError("idle")
    /\ UNCHANGED <<envVars, running, refresh_rate, samplerVars, sortNext, lastClick,
                   ui_printed, killVars, delVars>>

\* Line 124 finds the queue empty; line 154 schedules the next tick.
TickEnd ==
    /\ ppc = "draining"
    /\ update_queue = <<>>
    /\ ppc' = "idle"
    /\ tickStart' = <<>>
    /\ raced' = FALSE
    /\ UNCHANGED <<applied, stamps, ahead, followed, ui_error>>
    /\ UNCHANGED <<envVars, sharedVars, samplerVars, viewVars, sortVars, killVars,
                   delVars>>

\* One step of the main thread in check_updates.
PresenterStep == TickBegin \/ DrainOne \/ TickEnd

\* An observer picks a snapshot that waits on the queue, to follow it from
\* the put of line 113 to the get_nowait of line 125.
Follow ==
    /\ followed = 0
    /\ \E i \in 1..Len(stamps) : followed' = stamps[i]
    /\ UNCHANGED <<ppc, tickStart, raced, applied, stamps, ahead, ui_error>>
    /\ UNCHANGED <<envVars, sharedVars, samplerVars, viewVars, sortVars, killVars,
                   delVars>>

(***************************************************************************)
(* Text order.  tree.set(k, col) returns the cell's text, and Python       *)
(* compares texts by code point.                                           *)
(***************************************************************************)
\* The decimal digits of a natural number, as code points.
RECURSIVE Digits(_)
Digits(n) == IF n < 10 THEN <<48 + n>> ELSE Append(Digits(n \div 10), 48 + (n % 10))

\* The code points of the names the table can show.
Codes(name) ==
    CASE name = "worker" -> <<119, 111, 114, 107, 101, 114>>
      [] name = "Worker" -> <<87, 111, 114, 107, 101, 114>>
      [] name = "init"   -> <<105, 110, 105, 116>>
      [] name = "kernel" -> <<107, 101, 114, 110, 101, 108>>
      [] name = "daemon" -> <<100, 97, 101, 109, 111, 110>>
      [] name = "svc"    -> <<115, 118, 99>>
      [] name = "vault"  -> <<118, 97, 117, 108, 116>>

\* a < b for two texts.
RECURSIVE TextLess(_, _)
TextLess(a, b) ==
    IF b = <<>> THEN FALSE
    ELSE IF a = <<>> THEN TRUE
    ELSE IF Head(a) # Head(b) THEN Head(a) < Head(b)
    ELSE TextLess(Tail(a), Tail(b))

(***************************************************************************)
(* ProcessMonitor.sort_column, lines 156-169.                              *)
(***************************************************************************)
Columns == {"PID", "Name", "CPU%", "Memory"}

\* Lines 66-69: the reverse flag each heading command starts with.
InitialReverse == [c \in Columns |-> c \in {"CPU%", "Memory"}]

\* float(tree.set(k, col)) of a numeric column, in tenths.
NumCell(row, col) == IF col = "CPU%" THEN row.cpu ELSE row.mem

\* tree.set(k, col) of the other columns.
TextCell(row, col) == IF col = "PID" THEN Digits(row.pid) ELSE Codes(row.name)

\* Line 161: a stable sort by the float key, ascending, or with reverse=True
\* descending; rows of equal key keep their order either way.
RECURSIVE NumSorted(_, _, _, _)
NumSorted(keys, rows, col, reverse) ==
    IF keys = {} THEN <<>>
    ELSE LET m == IF reverse THEN SetMax(keys) ELSE SetMin(keys) IN
         SelectSeq(rows, LAMBDA r : NumCell(r, col) = m)
           \o NumSorted(keys \ {m}, rows, col, reverse)

\* (val, k) < (val2, k2) for the tuples line 163 sorts: by text, then by
\* item id.
ItemLess(r1, r2, col) ==
    LET a == TextCell(r1, col)
        b == TextCell(r2, col)
    IN  IF a = b THEN r1.iid < r2.iid ELSE TextLess(a, b)

\* Line 163 with reverse=False: the tuples in ascending order.  No two are
\* equal, so each row's place is one more than the rows below it.
TextSortedAsc(rows, col) ==
    LET n == Len(rows)
        place(i) == 1 + Cardinality({j \in 1..n : ItemLess(rows[j], rows[i], col)})
    IN  [p \in 1..n |-> rows[CHOOSE i \in 1..n : place(i) = p]]

Reverse(s) == [i \in 1..Len(s) |-> s[Len(s) + 1 - i]]

\* Lines 158-166: the rows as sort_column(col, reverse) leaves them.
SortedRows(rows, col, reverse) ==
    IF col \in {"CPU%", "Memory"}
      THEN NumSorted({NumCell(rows[i], col) : i \in 1..Len(rows)}, rows, col, reverse)
    ELSE IF reverse THEN Reverse(TextSortedAsc(rows, col))
    ELSE TextSortedAsc(rows, col)

\* NextReverse with the flag handed on as it is.
NextReverseKept(reverse) == reverse

\* Line 169: the flag the heading command holds after sort_column(col, reverse).
NextReverse(reverse) == ~reverse

\* The main thread is free to run an operator's handler.
UiReady == del_pc = "alive" /\ ppc = "idle" /\ dialog = "none"

\* The operator clicks the heading of col.
SortColumn(col) ==
    /\ UiReady
    /\ LET reverse == sortNext[col] IN
         /\ tree' = SortedRows(tree, col, reverse)
         /\ sortNext' = [sortNext EXCEPT ![col] = NextReverse(reverse)]
         /\ lastSort' = [col |-> col, reverse |-> reverse, again |-> lastSort.col = col,
                         across |-> (lastSort = NoSort /\ lastClick.col = col)]
         /\ lastClick' = [col |-> col, reverse |-> reverse]
    /\ UNCHANGED <<envVars, sharedVars, samplerVars, tickVars, labels, selection,
                   ui_printed, killVars, delVars>>

\* The operator selects rows of the table (or none).
Select(ids) ==
    /\ UiReady
    /\ ids \subseteq {tree[i].iid : i \in 1..Len(tree)}
    /\ selection' = ids
    /\ UNCHANGED <<envVars, sharedVars, samplerVars, tickVars, labels, tree,
                   ui_printed, sortVars, killVars, delVars>>

(***************************************************************************)
(* ProcessMonitor.terminate_process, lines 171-189.  The message boxes are *)
(* modal: the handler waits in each, and the timer of check_updates keeps  *)
(* firing meanwhile.                                                       *)
(***************************************************************************)
NoPid == -1
NoRequest == [pid |-> NoPid, exists |-> FALSE, permitted |-> FALSE,
              failed |-> FALSE, result |-> "none"]

\* FirstSelected with the table's first row taken, whatever is selected.
FirstRow == tree[1]

\* tree.selection()[0], lines 173 and 178: the selected row highest in the
\* table.
FirstSelected ==
    tree[SetMin({i \in 1..Len(tree) : tree[i].iid \in selection})]

\* Lines 181-182: psutil.Process(pid) raises NoSuchProcess for a pid that is
\* not there; terminate() raises AccessDenied without the privilege, or
\* whatever else the OS fails with; otherwise the signal is sent.
OsTerminate(exists, permitted, failed) ==
    IF ~exists THEN "NoSuchProcess"
    ELSE IF ~permitted THEN "AccessDenied"
    ELSE IF failed THEN "OSError"
    ELSE "signalled"

\* ResultDialog with the handler of line 188 placed first: it takes every
\* exception.
ResultDialogGenericFirst(result) ==
    IF result = "signalled" THEN "Success" ELSE "FailedToTerminate"

\* Lines 183-189: the message box each outcome ends in.
ResultDialog(result) ==
    CASE result = "signalled"     -> "Success"
      [] result = "NoSuchProcess" -> "NoLongerExists"
      [] result = "AccessDenied"  -> "AccessDenied"
      [] OTHER                    -> "FailedToTerminate"

ResultDialogs == {"Success", "NoLongerExists", "AccessDenied", "FailedToTerminate"}

\* Lines 173-179: the click on "Terminate Selected", up to the message box
\* it opens.
TerminateClick ==
    /\ UiReady
    /\ IF selection = {}
         THEN /\ dialog' = "NoSelection"
              /\ pending_pid' = NoPid
         ELSE /\ dialog' = "Confirm"
              /\ pending_pid' = FirstSelected.pid
    /\ answer' = "none"
    /\ os_request' = NoRequest
    /\ UNCHANGED <<envVars, sharedVars, samplerVars, tickVars, viewVars, sortVars, delVars>>

\* Lines 179-189: the operator answers askyesno; on yes the request goes to
\* the OS, whose answer opens the result's message box.
Answer(yes, exists, permitted, failed) ==
    /\ del_pc = "alive"
    /\ ppc = "idle"
    /\ dialog = "Confirm"
    /\ IF yes
         THEN LET result == OsTerminate(exists, permitted, failed) IN
              /\ answer' = "yes"
              /\ os_request' = [pid |-> pending_pid, exists |-> exists,
                                permitted |-> permitted, failed |-> failed,
                                result |-> result]
              /\ dialog' = ResultDialog(result)
              /\ UNCHANGED pending_pid
         ELSE /\ answer' = "no"
              /\ dialog' = "none"
              /\ pending_pid' = NoPid
              /\ UNCHANGED os_request
    /\ UNCHANGED <<envVars, sharedVars, samplerVars, tickVars, viewVars, sortVars, delVars>>

\* The operator closes the warning or the result; the handler returns.
Dismiss ==
    /\ del_pc = "alive"
    /\ ppc = "idle"
    /\ dialog \in ResultDialogs \cup {"NoSelection"}
    /\ dialog' = "none"
    /\ pending_pid' = NoPid
    /\ answer' = "none"
    /\ os_request' = NoRequest
    /\ UNCHANGED <<envVars, sharedVars, samplerVars, tickVars, viewVars, sortVars, delVars>>

(***************************************************************************)
(* The interval control, lines 44-46: a ttk.Spinbox on refresh_rate.  Its  *)
(* arrows step by increment within [from_, to]; its entry takes any text.  *)
(***************************************************************************)
Rate(v) == [numeric |-> TRUE, value |-> v]
BadText == [numeric |-> FALSE, value |-> 0]

\* Texts the operator types: zero, beyond the range, negative, no number.
TypedTexts == {Rate(0), Rate(20), Rate(100), Rate(-10), BadText}

Clamp(v) == Min(Max(v, SpinFrom), SpinTo)

\* An arrow of the Spinbox: dir is 1 (up) or -1 (down).
Spin(dir) ==
    /\ UiReady
    /\ refresh_rate' = IF refresh_rate.numeric
                         THEN Rate(Clamp(refresh_rate.value + dir * SpinIncrement))
                         ELSE Rate(SpinFrom)
    /\ UNCHANGED <<envVars, running, update_queue, samplerVars, tickVars, viewVars,
                   sortVars, killVars, delVars>>

\* The operator types into the Spinbox's entry.
TypeInterval(text) ==
    /\ UiReady
    /\ refresh_rate' = text
    /\ UNCHANGED <<envVars, running, update_queue, samplerVars, tickVars, viewVars,
                   sortVars, killVars, delVars>>

(***************************************************************************)
(* ProcessMonitor.__del__, lines 191-195.                                  *)
(***************************************************************************)
\* How long the call the Sampler is in may still last when __del__ begins:
\* the sleep or the cpu_percent has just begun, or is about to end.
Remaining ==
    CASE spc \in {"sleep", "fallback"} -> {0, Min(sleepDur, JoinTimeout + 1)}
      [] spc = "cycle"                 -> {0, CpuInterval}
      [] OTHER                         -> {0}

\* Lines 193-195: self.running = False, then join(timeout=1) is entered.
Shutdown ==
    /\ del_pc = "alive"
    /\ ppc = "idle"
    /\ running' = FALSE
    /\ del_pc' = "joining"
    /\ flagAt' = spc
    /\ join_left' = JoinTimeout
    /\ blocked_left' \in Remaining
    /\ UNCHANGED <<spc, sleepDur, printed>>
    /\ UNCHANGED <<envVars, update_queue, refresh_rate, tickVars,
                   viewVars, sortVars, killVars>>

\* Time passes while __del__ waits in join and the Sampler is blocked in a
\* call: up to the end of the call or of the timeout, whichever is first.
Elapse ==
    /\ del_pc = "joining"
    /\ join_left > 0
    /\ blocked_left > 0
    /\ LET d == Min(join_left, blocked_left) IN
         /\ join_left' = join_left - d
         /\ blocked_left' = blocked_left - d
    /\ UNCHANGED <<spc, sleepDur, printed, del_pc, flagAt>>
    /\ UNCHANGED <<envVars, sharedVars, tickVars, viewVars, sortVars, killVars>>

\* Line 195: join(timeout=1) returns: the thread has ended, or the second
\* is over with the Sampler still blocked in a call (a call that ends with
\* the timeout ends before it: the Sampler was in it first).  What the
\* Sampler does after the return is not timed.
JoinReturn ==
    /\ del_pc = "joining"
    /\ spc = "exited" \/ (join_left = 0 /\ blocked_left > 0)
    /\ del_pc' = "returned"
    /\ join_left' = 0
    /\ blocked_left' = 0
    /\ UNCHANGED <<spc, sleepDur, printed, flagAt>>
    /\ UNCHANGED <<envVars, sharedVars, tickVars, viewVars, sortVars,
                   killVars>>

(***************************************************************************)
(* The environment changes between two readings.                           *)
(***************************************************************************)
OsChange(world) ==
    /\ os' \in world \ {os}
    /\ UNCHANGED <<sharedVars, samplerVars, tickVars, viewVars, sortVars, killVars,
                   delVars>>

(***************************************************************************)
(* The state after ProcessMonitor.__init__, lines 9-91, in a given world.  *)
(***************************************************************************)
InitIn(world) ==
    /\ os \in world
    /\ running = TRUE
    /\ update_queue = <<>>
    /\ refresh_rate = Rate(DefaultRate)
    /\ spc = "test"
    /\ sleepDur = 0
    /\ printed = "none"
    /\ ppc = "idle"
    /\ tickStart = <<>>
    /\ labels = NoLabels
    /\ tree = <<>>
    /\ selection = {}
    /\ sortNext = InitialReverse
    /\ lastSort = NoSort
    /\ lastClick = NoClick
    /\ ui_printed = 0
    /\ dialog = "none"
    /\ pending_pid = NoPid
    /\ answer = "none"
    /\ os_request = NoRequest
    /\ del_pc = "alive"
    /\ flagAt = "none"
    /\ blocked_left = 0
    /\ join_left = 0
    /\ raced = FALSE
    /\ applied = NoSnapshot
    /\ stamps = <<>>
    /\ ahead = 0
    /\ followed = 0
    /\ ui_error = "none"

SamplerStep == LoopTest \/ Cycle \/ ReadInterval \/ Wake

(***************************************************************************)
(* The snapshot builder on one process table per run.                      *)
(***************************************************************************)
BuilderWorld == {Os(1234, HalfFull, t) : t \in BuilderTables}

InitBuilder == InitIn(BuilderWorld)

NextBuilder ==
    \/ LoopTest
    \/ Cycle
    \/ ReadInterval
    \/ Wake
    \/ TickBegin
    \/ DrainOne
    \/ TickEnd

SpecBuilder == InitBuilder /\ [][NextBuilder]_vars


(***************************************************************************)
(* The Sampler with the interval control and the shutdown, in a world      *)
(* whose process table changes between readable and unreadable.            *)
(***************************************************************************)
SamplerWorld ==
    {Os(1234, HalfFull, t) :
        t \in {<<Cold, Refused, Hot>>, <<Hot, NoCpu>>, <<NoName>>}}

InitSampler == InitIn(SamplerWorld)

NextSampler ==
    \/ LoopTest
    \/ Cycle
    \/ ReadInterval
    \/ Wake
    \/ TickBegin
    \/ DrainOne
    \/ TickEnd
    \/ \E dir \in {-1, 1} : Spin(dir)
    \/ \E text \in TypedTexts : TypeInterval(text)
    \/ Shutdown
    \/ Elapse
    \/ JoinReturn
    \/ OsChange(SamplerWorld)

SpecSampler == InitSampler /\ [][NextSampler]_vars

\* The Sampler is a thread of its own: the scheduler keeps running it; and
\* while __del__ waits in join time passes and the join returns.
FairSpecSampler ==
    SpecSampler /\ WF_vars(SamplerStep) /\ WF_vars(Elapse \/ JoinReturn)


(***************************************************************************)
(* The hand-off: the Sampler puts and the Presenter drains, in a world     *)
(* that changes between readings.                                          *)
(***************************************************************************)
ViewWorld ==
    { Os(1234, HalfFull, <<Cold, Warm, NoMem, Hot>>),
      Os(5000, HalfFull, <<Hot, Cold>>),
      Os(5000, HalfFull, <<>>) }

InitDrain == InitIn(ViewWorld)

NextDrain ==
    \/ LoopTest
    \/ Cycle
    \/ ReadInterval
    \/ Wake
    \/ OsChange(ViewWorld)
    \/ TickBegin
    \/ DrainOne
    \/ TickEnd
    \/ Follow

SpecDrain == InitDrain /\ [][NextDrain]_vars

\* The Tk timer keeps firing and the main thread keeps running: the
\* Presenter keeps taking its steps.
FairSpecDrain == SpecDrain /\ WF_vars(PresenterStep)

(***************************************************************************)
(* The hand-off with a Tk whose calls may raise.                           *)
(***************************************************************************)
InitFaultyUi == InitIn(ViewWorld)

NextFaultyUi ==
    \/ LoopTest
    \/ Cycle
    \/ ReadInterval
    \/ Wake
    \/ OsChange(ViewWorld)
    \/ TickBegin
    \/ DrainOne
    \/ \E stage \in RaiseStages : DrainRaises(stage)
    \/ TickEnd

SpecFaultyUi == InitFaultyUi /\ [][NextFaultyUi]_vars

(***************************************************************************)
(* The operator sorting the table, on one process table per run.           *)
(***************************************************************************)
SortPool == {Hot, Cold, Warm}
SortWorld ==
    {Os(1234, HalfFull, t) :
        t \in SeqsUpTo(SortPool, MaxProcs)}

InitSort == InitIn(SortWorld)

NextSort ==
    \/ LoopTest
    \/ Cycle
    \/ ReadInterval
    \/ Wake
    \/ TickBegin
    \/ DrainOne
    \/ TickEnd
    \/ \E col \in Columns : SortColumn(col)

SpecSort == InitSort /\ [][NextSort]_vars

(***************************************************************************)
(* The operator selecting rows and terminating processes.                  *)
(***************************************************************************)
InitTerminate == InitIn(ViewWorld)

NextTerminate ==
    \/ LoopTest
    \/ Cycle
    \/ ReadInterval
    \/ Wake
    \/ TickBegin
    \/ DrainOne
    \/ TickEnd
    \/ \E ids \in SUBSET {tree[i].iid : i \in 1..Len(tree)} : Select(ids)
    \/ TerminateClick
    \/ \E yes, exists, permitted, failed \in BOOLEAN :
         Answer(yes, exists, permitted, failed)
    \/ Dismiss

SpecTerminate == InitTerminate /\ [][NextTerminate]_vars


(***************************************************************************)
(* Claims on the snapshot builder, checked under SpecBuilder.              *)
(***************************************************************************)
\* The process records of the snapshots that are on the queue.
QueuedProcesses == {update_queue[q].processes : q \in 1..Len(update_queue)}

\* C1: every snapshot the Sampler has put on the queue holds at most 50
\* process records, and each record's normalized CPU percent is at least
\* that of the record after it.
C1_SnapshotCappedAndSorted ==
    \A ps \in QueuedProcesses :
        /\ Len(ps) <= 50
        /\ \A i \in 1..(Len(ps) - 1) : ps[i].cpu_percent >= ps[i + 1].cpu_percent

\* C1's case: a queued snapshot of exactly 50 records, cut from a table with
\* more than 50 readable processes that was not in descending order.
C1_Witness ==
    \E ps \in QueuedProcesses :
        /\ Len(ps) = 50
        /\ Cardinality({i \in 1..Len(os.procs) : Reading(os.procs[i]) = "keep"}) > 50
        /\ \E i \in 1..(Len(os.procs) - 1) :
             /\ Reading(os.procs[i]) = "keep"
             /\ Reading(os.procs[i + 1]) = "keep"
             /\ os.procs[i].cpu_percent < os.procs[i + 1].cpu_percent
        /\ ps[1].cpu_percent > ps[50].cpu_percent

\* C2: no record of a queued snapshot has a name that in lower case is
\* "system idle process" or "idle".
C2_NoIdleRecord ==
    \A ps \in QueuedProcesses :
        \A i \in 1..Len(ps) :
            /\ Lower(ps[i].name) # "system idle process"
            /\ Lower(ps[i].name) # "idle"

\* C2's case: a snapshot with records is queued while the process table
\* holds both idle names, neither written in lower case.
C2_Witness ==
    /\ \E ps \in QueuedProcesses : ps # <<>>
    /\ \E i \in 1..Len(os.procs) : os.procs[i].name = "System Idle Process"
    /\ \E i \in 1..Len(os.procs) : os.procs[i].name = "IDLE"

\* An entry of the process table whose process is there and whose name, CPU
\* percent and memory psutil could all read.
Readable(pinfo) ==
    /\ pinfo.raises = "none"
    /\ pinfo.name # NoneName
    /\ pinfo.cpu_percent # None
    /\ pinfo.memory_info # None

\* The pids of the readable, non-idle entries of the process table.
ReadablePids ==
    {os.procs[i].pid : i \in {j \in 1..Len(os.procs) :
        Readable(os.procs[j]) /\ Lower(os.procs[j].name) \notin IdleNames}}

\* C8: a cycle that no failure of the metrics backend as a whole strikes puts
\* a snapshot on the queue, whatever single processes have vanished or deny
\* their info, and if the cap leaves room the snapshot holds exactly the
\* readable, non-idle processes.
C8_UnreadableProcessSkipped ==
    [][(spc = "cycle" /\ spc' # "cycle" /\ printed' \notin CycleFaults \ {"none"})
         => /\ Len(update_queue') = Len(update_queue) + 1
            /\ LET ps == update_queue'[Len(update_queue')].processes IN
                 Cardinality(ReadablePids) <= 50
                   => {ps[i].pid : i \in 1..Len(ps)} = ReadablePids]_vars


(***************************************************************************)
(* Claims on the Sampler's loop, checked under SpecSampler and, where the  *)
(* claim says "eventually", under FairSpecSampler.                         *)
(***************************************************************************)
\* C6: once running is False the Sampler eventually leaves its loop; while
\* the flag is down a sleeping Sampler does nothing but wake to the loop
\* test, the loop test does nothing but exit, the exit prints no error, and
\* a sleep lasts the interval read when it began.
C6_ShutdownEndsSampler ==
    /\ (~running) ~> (spc = "exited")
    /\ [][/\ (~running /\ spc = "sleep") => spc' \in {"sleep", "test"}
          /\ (~running /\ spc = "test") => spc' \in {"test", "exited"}
          /\ (spc # "exited" /\ spc' = "exited") => (~running /\ printed' = "none")
          /\ (spc = "interval" /\ spc' = "sleep") => sleepDur' = refresh_rate.value
          /\ (spc = "sleep" /\ spc' = "sleep") => sleepDur' = sleepDur]_vars

\* C6's case: the flag fell while the Sampler slept, and the Sampler has
\* left its loop.
C6_Witness == spc = "exited" /\ flagAt = "sleep"

\* The Sampler has reported an error and is in the one-second fallback sleep.
InFallback == spc = "fallback" /\ printed # "none" /\ sleepDur = 10

\* C7: a cycle that ends without a put, and a reading of the interval that
\* ends without the sleep, end reported and in the one-second fallback
\* sleep; that sleep ends at the loop test, which with the flag up starts
\* the next cycle, and does so eventually; the loop is left only with the
\* flag down.
C7_SamplerSurvivesErrors ==
    /\ [](spc = "exited" => ~running)
    /\ [][/\ (spc = "cycle" /\ spc' # "cycle" /\ update_queue' = update_queue)
               => InFallback'
          /\ (spc = "interval" /\ spc' \notin {"interval", "sleep"}) => InFallback'
          /\ spc = "fallback" => spc' \in {"fallback", "test"}
          /\ (spc = "test" /\ running) => spc' \in {"test", "cycle"}]_vars
    /\ (spc = "fallback" /\ running) ~> (spc = "cycle" \/ ~running)

\* C7's case: the flag is up and the Sampler, after a TypeError in the
\* enumeration, is in the fallback sleep.
C7_Witness ==
    /\ running
    /\ spc = "fallback"
    /\ printed = "TypeError"
    /\ sleepDur = FallbackDelay

\* C9: every sleep between two cycles lasts between 0.1 and 5.0 seconds.
C9_SleepWithinRange == spc = "sleep" => (1 <= sleepDur /\ sleepDur <= 50)


(***************************************************************************)
(* Claims on the drain, checked under SpecDrain.                           *)
(***************************************************************************)
\* The labels and the rows are those of snap, and nothing else.
Shows(snap) == labels = LabelsOf(snap) /\ tree = Rows(snap.processes)

\* A tick of check_updates that found two or more snapshots queued ends.
MultiDrainEnds == ppc = "draining" /\ ppc' = "idle" /\ Len(tickStart) >= 2

\* C3 as stated: when a tick that found S1 ... Sn queued (n >= 2) ends, the
\* labels and rows are those of Sn alone and the queue is empty.
C3_ShowsLastQueuedAtStart ==
    [][MultiDrainEnds
         => (Shows(tickStart[Len(tickStart)]) /\ update_queue' = <<>>)]_vars

\* C3 amended: when such a tick ends, the labels and rows are those of the
\* last snapshot the tick dequeued alone, which is Sn unless the Sampler put
\* a snapshot while the tick ran, and the queue is empty.
C3_ShowsLastDequeued ==
    [][MultiDrainEnds
         => /\ Shows(applied)
            /\ ~raced => applied = tickStart[Len(tickStart)]
            /\ update_queue' = <<>>]_vars

\* C3's case: a tick that found two different snapshots queued has drained
\* both, with no put meanwhile, and shows the rows of the second.
C3_Witness ==
    /\ ppc = "draining"
    /\ update_queue = <<>>
    /\ Len(tickStart) = 2
    /\ tickStart[1] # tickStart[2]
    /\ tickStart[1].processes # <<>>
    /\ ~raced
    /\ tree # <<>>
    /\ Shows(tickStart[2])

(***************************************************************************)
(* Claims on sort_column, checked under SpecSort.                          *)
(***************************************************************************)
\* The step is a call of sort_column.
IsSortStep == lastSort' # lastSort /\ lastSort'.col # "none"

\* b holds the rows of a, each as often.
SameRows(a, b) ==
    /\ Len(a) = Len(b)
    /\ \A i \in 1..Len(a) :
         Cardinality({j \in 1..Len(a) : a[j] = a[i]})
           = Cardinality({j \in 1..Len(b) : b[j] = a[i]})

\* The rows are in descending order of the column: by number for PID, CPU%
\* and Memory, by text for Name.
Descending(rows, col) ==
    \A i \in 1..(Len(rows) - 1) :
        CASE col = "PID"    -> rows[i].pid >= rows[i + 1].pid
          [] col = "CPU%"   -> rows[i].cpu >= rows[i + 1].cpu
          [] col = "Memory" -> rows[i].mem >= rows[i + 1].mem
          [] col = "Name"   -> ~TextLess(Codes(rows[i].name), Codes(rows[i + 1].name))

\* C5: every call of sort_column leaves the rows it found, reordered; and a
\* call on the column the call before it sorted ascending leaves them in
\* descending order of that column.
C5_SortTogglesToDescending ==
    [][IsSortStep
         => /\ SameRows(tree, tree')
            /\ (lastSort'.again /\ ~lastSort.reverse)
                 => (lastSort'.reverse /\ Descending(tree', lastSort'.col))]_vars

(***************************************************************************)
(* Claims on terminate_process, checked under SpecTerminate.               *)
(***************************************************************************)
\* C4: while a result is reported the operator has said yes to a request
\* for the pid that was read, and the result is the one of the OS outcome:
\* "no longer exists" for a pid that is not there, "access denied" for one
\* the privilege does not reach, the generic failure with the reason for
\* any other failure, success if and only if the signal went out; and a yes
\* always has its one result on display.
C4_OutcomeReported ==
    /\ answer = "yes" => dialog \in {"Success", "NoLongerExists", "AccessDenied",
                                     "FailedToTerminate"}
    /\ dialog \in {"Success", "NoLongerExists", "AccessDenied", "FailedToTerminate"}
         => /\ answer = "yes"
            /\ os_request.pid = pending_pid
            /\ ~os_request.exists => dialog = "NoLongerExists"
            /\ (os_request.exists /\ ~os_request.permitted) => dialog = "AccessDenied"
            /\ (os_request.exists /\ os_request.permitted /\ os_request.failed)
                 => (dialog = "FailedToTerminate" /\ os_request.result = "OSError")
            /\ dialog = "Success" <=> os_request.result = "signalled"
            /\ os_request.result = "signalled"
                 <=> (os_request.exists /\ os_request.permitted /\ ~os_request.failed)

\* C4's case: the operator confirmed for a pid that is gone, and "no longer
\* exists" is on display.
C4_Witness ==
    /\ answer = "yes"
    /\ ~os_request.exists
    /\ os_request.pid = 11
    /\ dialog = "NoLongerExists"

\* C10: a terminate request reaches the OS only in the step that answers
\* the confirmation with yes, for the pid read at the click; the click
\* opens the confirmation only with rows selected, for the pid of the
\* selected row highest in the table; with none selected it opens the
\* warning and changes nothing else; a yes makes one request and reports
\* its outcome in the same step; a no makes none.
C10_TerminateGated ==
    [][/\ (os_request' # os_request /\ os_request' # NoRequest)
            => /\ dialog = "Confirm"
               /\ answer' = "yes"
               /\ pending_pid # NoPid
               /\ os_request'.pid = pending_pid
       /\ (dialog = "none" /\ dialog' = "Confirm")
            => /\ selection # {}
               /\ \E i \in 1..Len(tree) :
                    /\ tree[i].iid \in selection
                    /\ \A j \in 1..(i - 1) : tree[j].iid \notin selection
                    /\ pending_pid' = tree[i].pid
       /\ (dialog = "none" /\ dialog' # "none" /\ selection = {})
            => /\ dialog' = "NoSelection"
               /\ os_request' = NoRequest
               /\ UNCHANGED <<os, running, update_queue, refresh_rate, labels, tree,
                              selection, sortNext>>
       /\ (dialog = "Confirm" /\ answer' = "yes")
            => /\ os_request' # NoRequest
               /\ dialog' \in {"Success", "NoLongerExists", "AccessDenied",
                               "FailedToTerminate"}
       /\ (dialog = "Confirm" /\ answer' = "no")
            => (os_request' = NoRequest /\ dialog' = "none")]_vars

\* C10's case: with the second and third rows selected the operator
\* confirmed, and the signal went to the second row's pid.
C10_Witness ==
    /\ answer = "yes"
    /\ os_request.result = "signalled"
    /\ os_request.pid = 11
    /\ Len(tree) = 3
    /\ tree[2].pid = 11
    /\ selection = {tree[2].iid, tree[3].iid}

(***************************************************************************)
(* Claims on the hand-off through update_queue, checked under SpecDrain    *)
(* and, where the claim says "eventually", under FairSpecDrain.            *)
(***************************************************************************)
\* The step takes a snapshot off the queue.
IsDequeue == Len(update_queue') < Len(update_queue)

\* C11: the snapshots wait on the queue in the order of their creation; the
\* one a step dequeues is the one published right after the one dequeued
\* before it, so it is newer than the one on display; the display changes
\* to the snapshot dequeued, and changes in no other step.
C11_CreationOrder ==
    /\ [](\A i \in 1..Len(stamps) : \A j \in (i + 1)..Len(stamps) :
             stamps[i] < stamps[j])
    /\ [][/\ IsDequeue
               => /\ stamps[1] = 1
                  /\ stamps[1] > 0
                  /\ applied' = update_queue[1]
                  /\ labels' = LabelsOf(update_queue[1])
                  /\ tree' = Rows(update_queue[1].processes)
          /\ (labels' # labels \/ applied' # applied) => IsDequeue]_vars

\* C11's case: a tick found two different snapshots queued and has dequeued
\* the first; the Sampler has put a third behind the second meanwhile.
C11_Witness ==
    /\ ppc = "draining"
    /\ Len(tickStart) = 2
    /\ tickStart[1] # tickStart[2]
    /\ applied = tickStart[1]
    /\ raced
    /\ Len(update_queue) = 2
    /\ update_queue[1] = tickStart[2]
    /\ update_queue[2] # tickStart[2]

\* C12: the queue holds each snapshot published since the last dequeue, once
\* and in its place; a put adds the new snapshot and keeps the others; a
\* dequeue takes one snapshot and keeps the others; and with the Presenter
\* taking its steps a snapshot that waits is eventually dequeued.
C12_HandedOffOnce ==
    /\ [](/\ Len(stamps) = Len(update_queue)
          /\ ahead = Len(update_queue)
          /\ \A i \in 1..Len(stamps) : stamps[i] = i)
    /\ [][/\ IsDequeue => update_queue' = Tail(update_queue)
          /\ (spc = "cycle" /\ spc' = "interval")
                => /\ Len(update_queue') = Len(update_queue) + 1
                   /\ SubSeq(update_queue', 1, Len(update_queue)) = update_queue
          /\ update_queue' # update_queue
                => (IsDequeue \/ (spc = "cycle" /\ spc' = "interval"))]_vars
    /\ (followed > 0) ~> (followed = 0)

\* C12's case: the observer follows the second of two snapshots that wait,
\* while a tick is under way.
C12_Witness ==
    /\ Len(update_queue) = 2
    /\ followed = 2
    /\ ppc = "draining"

\* C13: the queue never holds more than one snapshot.
C13_AtMostOnePending == Len(update_queue) <= 1

(***************************************************************************)
(* Claims on the shutdown, checked under FairSpecSampler.                  *)
(***************************************************************************)
\* C14: when __del__ has returned the Sampler has left its loop: it is in
\* no sampling cycle and in no sleep.
C14_JoinedOnReturn == del_pc = "returned" => spc = "exited"

\* How far the Sampler is through one turn of its loop.
LoopRank(pc) ==
    CASE pc = "cycle"                 -> 0
      [] pc = "interval"              -> 1
      [] pc \in {"sleep", "fallback"} -> 2
      [] pc = "test"                  -> 3
      [] pc = "exited"                -> 4

\* C19: the loop is left only from the loop test; and with the flag down the
\* Sampler only moves on through the turn it is in, never into a cycle: a
\* put is the step that ends the cycle under way, a sleep is entered from
\* that cycle or the interval read after it, and the loop test exits.  So
\* after the flag falls there is at most one put and at most one sleep.
C19_FlagCheckedAtLoopTop ==
    [][/\ (spc # "exited" /\ spc' = "exited") => spc = "test"
       /\ ~running
            => /\ LoopRank(spc') >= LoopRank(spc)
               /\ spc' = "cycle" => spc = "cycle"
               /\ Len(update_queue') > Len(update_queue)
                    => (spc = "cycle" /\ spc' = "interval")
               /\ (spc' \in {"sleep", "fallback"} /\ spc' # spc)
                    => spc \in {"cycle", "interval"}
               /\ spc = "test" => spc' \in {"test", "exited"}]_vars

\* C19's case: the flag fell during a cycle; the Sampler has put that
\* cycle's snapshot and is in the sleep after it.
C19_Witness == ~running /\ flagAt = "cycle" /\ spc = "sleep" /\ update_queue # <<>>

(***************************************************************************)
(* Further claims on sort_column, checked under SpecSort.                  *)
(***************************************************************************)
\* The rows are in ascending order of the column: by number for PID, CPU%
\* and Memory, by text for Name.
Ascending(rows, col) ==
    \A i \in 1..(Len(rows) - 1) :
        CASE col = "PID"    -> rows[i].pid <= rows[i + 1].pid
          [] col = "CPU%"   -> rows[i].cpu <= rows[i + 1].cpu
          [] col = "Memory" -> rows[i].mem <= rows[i + 1].mem
          [] col = "Name"   -> ~TextLess(Codes(rows[i + 1].name), Codes(rows[i].name))

\* C15: a call of sort_column that sorts ascending leaves the rows in
\* non-decreasing order of the column, numbers compared as numbers and
\* names as text.
C15_AscendingByColumnType ==
    [][(IsSortStep /\ ~lastSort'.reverse) => Ascending(tree', lastSort'.col)]_vars

(***************************************************************************)
(* Claims on the rendering of a snapshot, checked under SpecDrain.         *)
(***************************************************************************)
\* The places in processes of the records that have their memory info.
WellFormed(processes) ==
    {i \in 1..Len(processes) : processes[i].memory_info # None}

\* The place in processes of the k-th record that has its memory info.
KthWellFormed(processes, k) ==
    CHOOSE i \in WellFormed(processes) :
        Cardinality({j \in WellFormed(processes) : j <= i}) = k

\* C16: the step that applies a snapshot leaves one row for each record
\* that has its memory info, in the snapshot's order and with that record's
\* pid, name, CPU percent, memory and status; a record without memory info
\* gets no row and is reported.
C16_PartialRecordSkipped ==
    [][IsDequeue
         => LET ps == update_queue[1].processes IN
              /\ Len(tree') = Cardinality(WellFormed(ps))
              /\ \A k \in 1..Len(tree') :
                   LET proc == ps[KthWellFormed(ps, k)] IN
                     /\ tree'[k].pid = proc.pid
                     /\ tree'[k].name = proc.name
                     /\ tree'[k].cpu = Fmt1(proc.cpu_percent)
                     /\ tree'[k].mem = FmtMB(proc.memory_info)
                     /\ tree'[k].status = proc.status
              /\ ui_printed' = Len(ps) - Cardinality(WellFormed(ps))]_vars

\* C16's case: the snapshot applied last has a record without memory info
\* between two that have it; the table shows the others, the last record's
\* row at the bottom.
C16_Witness ==
    LET ps == applied.processes IN
      /\ \E i \in 2..(Len(ps) - 1) :
           /\ ps[i].memory_info = None
           /\ WellFormed(ps) = (1..Len(ps)) \ {i}
      /\ Len(tree) = Len(ps) - 1
      /\ tree[Len(tree)].pid = ps[Len(ps)].pid
      /\ ui_printed = 1

(***************************************************************************)
(* Claims on the Presenter's timer, checked under SpecFaultyUi.            *)
(***************************************************************************)
\* C17: a tick under way ends only with the next tick scheduled, whether
\* the queue was drained or a call raised; a tick that finds the queue
\* empty leaves the labels, the rows and the selection as they are; and
\* while the application runs a scheduled tick can begin.
C17_NextTickScheduled ==
    /\ [](ppc \in {"idle", "draining"})
    /\ []((ppc = "idle" /\ del_pc = "alive") => ENABLED TickBegin)
    /\ [][/\ (ppc = "draining" /\ ppc' # "draining") => ppc' = "idle"
          /\ (ppc = "draining" /\ ppc' = "idle" /\ update_queue = <<>>)
               => UNCHANGED <<labels, tree, selection>>
          /\ (ppc = "draining" /\ ui_error' # "none") => ppc' = "idle"]_vars

\* C17's case: a call raised while a tick applied the first of two queued
\* snapshots; the error is printed, the second snapshot waits, and the next
\* tick is scheduled.
C17_Witness ==
    /\ ui_error = "TclError"
    /\ ppc = "idle"
    /\ update_queue # <<>>
    /\ applied # NoSnapshot

(***************************************************************************)
(* A further claim on the snapshot builder, checked under SpecBuilder,     *)
(* where the process table stays as it is.                                 *)
(***************************************************************************)
\* The places in the process table of the readable, non-idle processes.
Enumerated ==
    {i \in 1..Len(os.procs) :
        /\ os.procs[i].raises = "none"
        /\ os.procs[i].name # NoneName
        /\ os.procs[i].cpu_percent # None
        /\ Lower(os.procs[i].name) \notin IdleNames}

\* No two entries of the process table have one pid.
DistinctPids ==
    \A i, j \in 1..Len(os.procs) : os.procs[i].pid = os.procs[j].pid => i = j

\* The place of a process in the process table.
PlaceOf(pid) == CHOOSE i \in 1..Len(os.procs) : os.procs[i].pid = pid

\* The places of the readable, non-idle processes a snapshot leaves out.
LeftOut(ps) ==
    {i \in Enumerated : \A k \in 1..Len(ps) : ps[k].pid # os.procs[i].pid}

\* ps holds readable, non-idle processes of the table, 50 of them if there
\* are more; none left out has a higher normalized CPU percent than one in
\* it, and one left out with the same was enumerated later; records of one
\* CPU percent are in the order of enumeration.
StableTopCut(ps) ==
    LET place == [k \in 1..Len(ps) |-> PlaceOf(ps[k].pid)]
        left  == LeftOut(ps)
    IN
      /\ \A k \in 1..Len(ps) : \E i \in Enumerated : os.procs[i].pid = ps[k].pid
      /\ Len(ps) = Min(Cardinality(Enumerated), 50)
      /\ \A i \in left : \A k \in 1..Len(ps) :
           /\ os.procs[i].cpu_percent \div NumCores <= ps[k].cpu_percent
           /\ os.procs[i].cpu_percent \div NumCores = ps[k].cpu_percent
                => place[k] < i
      /\ \A k \in 1..Len(ps) : \A l \in (k + 1)..Len(ps) :
           ps[k].cpu_percent = ps[l].cpu_percent => place[k] < place[l]

\* C18: the snapshot a cycle puts on the queue is the stable top cut of the
\* process table the cycle enumerated.
C18_StableTopCut ==
    [][(Len(update_queue') > Len(update_queue) /\ DistinctPids)
         => StableTopCut(update_queue'[Len(update_queue')].processes)]_vars

\* C18's case: a snapshot of 50 cut from 51 processes; the one left out has
\* the CPU percent of the last one kept, the record of pid 11 is kept among
\* its equals, and a record of higher CPU percent stands first.
C18_Witness ==
    \E ps \in QueuedProcesses :
        /\ DistinctPids
        /\ Len(ps) = 50
        /\ Cardinality(Enumerated) = 51
        /\ \E i \in LeftOut(ps) :
             os.procs[i].cpu_percent \div NumCores = ps[50].cpu_percent
        /\ ps[1].cpu_percent > ps[50].cpu_percent
        /\ ps[2].pid = 11
        /\ ps[2].cpu_percent = ps[50].cpu_percent

(***************************************************************************)
(* A claim on sort_column and check_updates together, checked under        *)
(* SpecSort.                                                               *)
(***************************************************************************)
\* C20: the step that applies a snapshot puts the snapshot's records in the
\* table in the snapshot's order, descending by CPU percent, whatever the
\* rows and their order were, and leaves each heading's flag as it is; and
\* a call of sort_column on the column of the call before it, a snapshot
\* applied in between or not, sorts in the other direction.
C20_SortNotCarriedOver ==
    [][/\ IsDequeue
            => LET ps == update_queue[1].processes IN
                 /\ Len(tree') = Len(ps)
                 /\ \A k \in 1..Len(ps) :
                      /\ tree'[k].pid = ps[k].pid
                      /\ tree'[k].cpu = Fmt1(ps[k].cpu_percent)
                 /\ \A k \in 1..(Len(ps) - 1) : tree'[k].cpu >= tree'[k + 1].cpu
                 /\ sortNext' = sortNext
       /\ (IsSortStep /\ lastClick.col = lastSort'.col)
            => lastSort'.reverse = ~lastClick.reverse]_vars

\* C20's case: the operator sorted by CPU% (descending, the heading's first
\* flag), a snapshot was applied, and the next click on CPU% has sorted
\* ascending: the rows are no longer in the snapshot's order.
C20_Witness ==
    /\ lastSort.col = "CPU%"
    /\ lastSort.across
    /\ ~lastSort.reverse
    /\ Len(tree) = 2
    /\ tree[1].cpu < tree[2].cpu

====
